---- MODULE Spec2Model ----
(***************************************************************************)
(* Model of main.py: the live capture loop (lines 43-72) followed by the   *)
(* batch calibration flow (lines 74-158).  The vision library calls are    *)
(* external: their results are inputs drawn from small sets.               *)
(***************************************************************************)
EXTENDS Integers, Sequences, FiniteSets, TLC

\* ---------------------------------------------------------------- bounds
MaxFiles == 3      \* files ./calibration_pictures can hold
MaxPre == 1        \* files already in ./calibration_pictures at start

\* ------------------------------------------------------ program constants
THRESHOLD == 20    \* "if response > 20"
ESC == 27          \* "k%256 == 27"
SPACE == 32        \* "k%256 == 32"
KEYMOD == 256      \* "k%256"

\* ------------------------------------------------------------ input sets
\* (rows, columns) of a decoded image, as numpy's shape gives them
Shapes == {<<2, 3>>, <<4, 5>>}
\* return values of interpolateCornersCharuco: number of board corners
Responses == {0, 20, 21}
\* return values of waitKey(1): -1 is "no key"; 283 is ESC with a
\* modifier bit above the low byte
Keys == {-1, 27, 32, 97, 283}
\* what str(datetime.datetime.now()) can give
Dates == {"2020-01-01", "2020-01-02"}

\* A decodable image: its shape and the corner count the detector finds
\* in it.
Decoded == [decodable : {TRUE}, shape : Shapes, response : Responses]
\* What cam.read() delivers: the one device always gives the same shape
CameraShape == <<2, 3>>
Frames == {f \in Decoded : f.shape = CameraShape}
\* A file that matches *.* and that imread cannot decode (imread gives None)
Undecodable == [decodable |-> FALSE, shape |-> <<0, 0>>, response |-> 0]
Contents == Decoded \cup {Undecodable}

\* File names of ./calibration_pictures
PreNames == {[kind |-> "calibration_img", n |-> 0]}
              \cup {[kind |-> "other", n |-> i] : i \in 0..(MaxPre - 1)}
NoArg == [kind |-> "", n |-> 0]

\* "./calibration_pictures/calibration_img{}.png".format(img_counter)
img_name(c) == [kind |-> "calibration_img", n |-> c]

None == <<>>
\* Python truth of image_size: None is false, a 2-tuple is true
Truthy(x) == Len(x) > 0

\* gray.shape[::-1]
Reversed(s) == [i \in 1..Len(s) |-> s[Len(s) + 1 - i]]

\* mutant of BoardFound: "at least 20" read as >=
BoardFoundAtLeast(response) == response >= THRESHOLD

\* "if response > 20"
BoardFound(response) == response > THRESHOLD

\* mutant of SetImageSize: the size is taken from every accepted image
SetImageSizeAlways(size, gray_shape) == Reversed(gray_shape)

\* "if not image_size: image_size = gray.shape[::-1]"
SetImageSize(size, gray_shape) ==
    IF ~Truthy(size) THEN Reversed(gray_shape) ELSE size

\* mutant of IsEscape: any pressed key ends the loop
IsEscapeAnyKey(key) == key # -1

\* "if k%256 == 27"
IsEscape(key) == key % KEYMOD = ESC

\* "elif k%256 == 32"
IsSpace(key) == key % KEYMOD = SPACE

\* mutant of RetvalTruthy: the result is stored whatever the solver said
RetvalIgnored(r) == TRUE

\* "if retval:"
RetvalTruthy(r) == r # 0

\* mutant of FileStorageWrites: the resolution is written as numpy's
\* (rows, columns) instead of the recorded image_size
FileStorageWritesShape(now, size, matrix, coefficients) ==
    << <<"calibration_date", now>>,
       <<"camera_resolution", Reversed(size)>>,
       <<"camera_matrix", matrix>>,
       <<"distortion_coefficients", coefficients>> >>

\* the four calibration_store.write calls, in order
FileStorageWrites(now, size, matrix, coefficients) ==
    << <<"calibration_date", now>>,
       <<"camera_resolution", size>>,
       <<"camera_matrix", matrix>>,
       <<"distortion_coefficients", coefficients>> >>

\* the orders in which glob.glob can list the files S
Listings(S) == {f \in [1..Cardinality(S) -> S] :
                  \A i, j \in 1..Cardinality(S) : f[i] = f[j] => i = j}

Say(text, arg) == [text |-> text, arg |-> arg]

VARIABLES pc, cam, window, img_counter, ret, frame, k, dir, stdout,
          images, idx, corners_all, ids_all, image_size,
          solverCalls, solverArgs, retval, camera_matrix,
          distortion_coefficients, storeOpened, calibration_store

vars == <<pc, cam, window, img_counter, ret, frame, k, dir, stdout,
          images, idx, corners_all, ids_all, image_size,
          solverCalls, solverArgs, retval, camera_matrix,
          distortion_coefficients, storeOpened, calibration_store>>

captureVars == <<cam, window, img_counter, ret, frame, k, dir>>
batchVars == <<images, idx, corners_all, ids_all, image_size>>
solveVars == <<solverCalls, solverArgs, retval, camera_matrix,
               distortion_coefficients, storeOpened, calibration_store>>

Init ==
    /\ pc = "read"
    /\ cam = TRUE
    /\ window = TRUE
    /\ img_counter = 0
    /\ ret = TRUE
    /\ frame = CHOOSE f \in Frames : TRUE
    /\ k = -1
    /\ \E S \in SUBSET PreNames :
          /\ Cardinality(S) <= MaxPre
          /\ dir \in [S -> Contents]
    /\ stdout = <<>>
    /\ images = <<>>
    /\ idx = 1
    /\ corners_all = <<>>
    /\ ids_all = <<>>
    /\ image_size = None
    /\ solverCalls = 0
    /\ solverArgs = [charucoCorners |-> <<>>, charucoIds |-> <<>>,
                     imageSize |-> None]
    /\ retval = 0
    /\ camera_matrix = "unset"
    /\ distortion_coefficients = "unset"
    /\ storeOpened = FALSE
    /\ calibration_store = <<>>

\* ---------------------------------------------------------- capture loop
\* lines 50-56: grab a frame; a failed grab breaks out of the loop
ReadFrame ==
    /\ pc = "read"
    /\ \E r \in BOOLEAN, f \in Frames :
          /\ ret' = r
          /\ IF ~r
               THEN /\ stdout' = Append(stdout, Say("failed to grab frame", NoArg))
                    /\ pc' = "release"
                    /\ frame' = frame
               ELSE /\ stdout' = stdout
                    /\ pc' = "waitKey"
                    /\ frame' = f
    /\ UNCHANGED <<cam, window, img_counter, k, dir>>
    /\ UNCHANGED <<batchVars, solveVars>>

\* lines 58-64: poll the keyboard and branch on the low byte of the key
WaitKey ==
    /\ pc = "waitKey"
    /\ \E key \in Keys :
          /\ (~IsEscape(key) /\ IsSpace(key))
                => Cardinality(DOMAIN dir \cup {img_name(img_counter)}) <= MaxFiles
          /\ k' = key
          /\ IF IsEscape(key)
               THEN /\ stdout' = Append(stdout, Say("Escape hit, closing...", NoArg))
                    /\ pc' = "release"
               ELSE IF IsSpace(key)
                      THEN /\ stdout' = stdout
                           /\ pc' = "saving"
                      ELSE /\ stdout' = stdout
                           /\ pc' = "read"
    /\ UNCHANGED <<cam, window, img_counter, ret, frame, dir>>
    /\ UNCHANGED <<batchVars, solveVars>>

\* lines 65-68: write the unmodified frame under the next number
SaveFrame ==
    /\ pc = "saving"
    /\ dir' = [n \in DOMAIN dir \cup {img_name(img_counter)} |->
                 IF n = img_name(img_counter) THEN frame ELSE dir[n]]
    /\ stdout' = Append(stdout, Say("{} written!", img_name(img_counter)))
    /\ img_counter' = img_counter + 1
    /\ pc' = "read"
    /\ UNCHANGED <<cam, window, ret, frame, k>>
    /\ UNCHANGED <<batchVars, solveVars>>

\* mutant of CamRelease: the device is never released
CamReleaseMissing ==
    /\ pc = "release"
    /\ cam' = cam
    /\ pc' = "destroy"
    /\ UNCHANGED <<window, img_counter, ret, frame, k, dir, stdout>>
    /\ UNCHANGED <<batchVars, solveVars>>

\* line 70
CamRelease ==
    /\ pc = "release"
    /\ cam' = FALSE
    /\ pc' = "destroy"
    /\ UNCHANGED <<window, img_counter, ret, frame, k, dir, stdout>>
    /\ UNCHANGED <<batchVars, solveVars>>

\* line 72
DestroyAllWindows ==
    /\ pc = "destroy"
    /\ window' = FALSE
    /\ pc' = "glob"
    /\ UNCHANGED <<cam, img_counter, ret, frame, k, dir, stdout>>
    /\ UNCHANGED <<batchVars, solveVars>>

\* ----------------------------------------------------------- batch flow
\* line 74
Glob ==
    /\ pc = "glob"
    /\ images' \in Listings(DOMAIN dir)
    /\ idx' = 1
    /\ pc' = "loop"
    /\ UNCHANGED <<captureVars, stdout, corners_all, ids_all, image_size>>
    /\ UNCHANGED solveVars

\* what the detector gives for the file iname
charuco_corners(iname) == [image |-> iname, corners |-> dir[iname].response]

\* mutant of charuco_ids: the ids of the first image are reused
charuco_ids_first(iname) ==
    [image |-> images[1], ids |-> dir[images[1]].response]

charuco_ids(iname) == [image |-> iname, ids |-> dir[iname].response]

\* mutant of ProcessImage: the append to ids_all sits under
\* "if not image_size"
ProcessImageIdsOnce ==
    /\ pc = "loop"
    /\ idx <= Len(images)
    /\ LET iname == images[idx]
           img == dir[iname]
       IN IF ~img.decodable
            THEN /\ pc' = "raised"
                 /\ UNCHANGED <<idx, corners_all, ids_all, image_size, stdout>>
            ELSE /\ pc' = "loop"
                 /\ idx' = idx + 1
                 /\ IF BoardFound(img.response)
                      THEN /\ corners_all' = Append(corners_all, charuco_corners(iname))
                           /\ ids_all' = IF ~Truthy(image_size)
                                            THEN Append(ids_all, charuco_ids(iname))
                                            ELSE ids_all
                           /\ image_size' = SetImageSize(image_size, img.shape)
                           /\ stdout' = stdout
                      ELSE /\ stdout' = Append(stdout,
                                  Say("Not able to detect a charuco board in image: {}", iname))
                           /\ UNCHANGED <<corners_all, ids_all, image_size>>
    /\ UNCHANGED <<captureVars, images, solveVars>>

\* lines 77-122: one iteration of the loop over the globbed names
ProcessImage ==
    /\ pc = "loop"
    /\ idx <= Len(images)
    /\ LET iname == images[idx]
           img == dir[iname]
       IN IF ~img.decodable
            THEN \* cvtColor(None) raises
                 /\ pc' = "raised"
                 /\ UNCHANGED <<idx, corners_all, ids_all, image_size, stdout>>
            ELSE /\ pc' = "loop"
                 /\ idx' = idx + 1
                 /\ IF BoardFound(img.response)
                      THEN /\ corners_all' = Append(corners_all, charuco_corners(iname))
                           /\ ids_all' = Append(ids_all, charuco_ids(iname))
                           /\ image_size' = SetImageSize(image_size, img.shape)
                           /\ stdout' = stdout
                      ELSE /\ stdout' = Append(stdout,
                                  Say("Not able to detect a charuco board in image: {}", iname))
                           /\ UNCHANGED <<corners_all, ids_all, image_size>>
    /\ UNCHANGED <<captureVars, images, solveVars>>

\* mutant of CheckImages: the guard is off by one
CheckImagesOffByOne ==
    /\ pc = "loop"
    /\ idx > Len(images)
    /\ IF Len(images) < 0
         THEN /\ stdout' = Append(stdout,
                     Say("Calibration was unsuccessful. No images of charucoboards were found.", NoArg))
              /\ pc' = "exited"
         ELSE /\ stdout' = stdout
              /\ pc' = "check_size"
    /\ UNCHANGED <<captureVars, batchVars, solveVars>>

\* lines 124-129
CheckImages ==
    /\ pc = "loop"
    /\ idx > Len(images)
    /\ IF Len(images) < 1
         THEN /\ stdout' = Append(stdout,
                     Say("Calibration was unsuccessful. No images of charucoboards were found.", NoArg))
              /\ pc' = "exited"
         ELSE /\ stdout' = stdout
              /\ pc' = "check_size"
    /\ UNCHANGED <<captureVars, batchVars, solveVars>>

\* mutant of CheckImageSize: the guard is missing
CheckImageSizeMissing ==
    /\ pc = "check_size"
    /\ stdout' = stdout
    /\ pc' = "solve"
    /\ UNCHANGED <<captureVars, batchVars, solveVars>>

\* lines 131-137
CheckImageSize ==
    /\ pc = "check_size"
    /\ IF ~Truthy(image_size)
         THEN /\ stdout' = Append(stdout,
                     Say("Calibration was unsuccessful. We couldn't detect charucoboards in any of the images supplied.", NoArg))
              /\ pc' = "exited"
         ELSE /\ stdout' = stdout
              /\ pc' = "solve"
    /\ UNCHANGED <<captureVars, batchVars, solveVars>>

\* what calibrateCameraCharuco can return: retval, then the two results
SolverResults == [retval : {0, 1}, camera_matrix : {"K1"},
                  distortion_coefficients : {"D1"}]

\* lines 141-147
Calibrate ==
    /\ pc = "solve"
    /\ solverCalls' = solverCalls + 1
    /\ solverArgs' = [charucoCorners |-> corners_all, charucoIds |-> ids_all,
                      imageSize |-> image_size]
    /\ \E r \in SolverResults :
          /\ retval' = r.retval
          /\ camera_matrix' = r.camera_matrix
          /\ distortion_coefficients' = r.distortion_coefficients
    /\ pc' = "persist"
    /\ UNCHANGED <<captureVars, batchVars, stdout, storeOpened, calibration_store>>

\* lines 149-158
Persist ==
    /\ pc = "persist"
    /\ IF RetvalTruthy(retval)
         THEN \E now \in Dates :
                /\ storeOpened' = TRUE
                /\ calibration_store' =
                      FileStorageWrites(now, image_size, camera_matrix,
                                        distortion_coefficients)
                /\ stdout' = Append(stdout, Say("Calibration finished", NoArg))
         ELSE /\ stdout' = Append(stdout, Say("ERROR: Calibration failed", NoArg))
              /\ UNCHANGED <<storeOpened, calibration_store>>
    /\ pc' = "end"
    /\ UNCHANGED <<captureVars, batchVars, solverCalls, solverArgs, retval,
                   camera_matrix, distortion_coefficients>>

Next ==
    \/ ReadFrame
    \/ WaitKey
    \/ SaveFrame
    \/ CamRelease
    \/ DestroyAllWindows
    \/ Glob
    \/ ProcessImage
    \/ CheckImages
    \/ CheckImageSize
    \/ Calibrate
    \/ Persist

Spec == Init /\ [][Next]_vars

\* ------------------------------------------------------------ properties
CapturePcs == {"read", "waitKey", "saving", "release", "destroy"}
Globbed == pc \notin CapturePcs \cup {"glob"}
Terminal == pc \in {"exited", "raised", "end"}

\* positions of the images the loop has gone through, and of those among
\* them whose corner count is above 20
Seen == 1..(idx - 1)
PassedAmong(I) == {i \in I : dir[images[i]].decodable /\ dir[images[i]].response >= 21}
FirstOf(I) == CHOOSE i \in I : \A j \in I : i <= j
LastSaid == stdout[Len(stdout)].text
NoImagesText == "Calibration was unsuccessful. No images of charucoboards were found."
NoBoardText == "Calibration was unsuccessful. We couldn't detect charucoboards in any of the images supplied."
IsPrefix(s, t) == Len(s) <= Len(t) /\ \A i \in 1..Len(s) : s[i] = t[i]

C2_EqualLengths ==
    /\ Len(corners_all) = Len(ids_all)
    /\ ((Globbed /\ pc # "raised" /\ idx > Len(images))
          => Len(corners_all) = Cardinality(PassedAmong(1..Len(images))))

\* C2 witness: the loop is over, two images passed and one did not.
C2_Witness ==
    /\ pc = "check_size"
    /\ Len(images) = 3
    /\ Len(corners_all) = 2
    /\ Len(ids_all) = 2

\* C3: with an empty glob the run only ever reaches the end of the (empty)
\* loop and the exit after the "no images" message; the solver is never
\* called and the output file never opened or written.
C3_EmptyCorpus ==
    (Globbed /\ Len(images) = 0)
      => /\ solverCalls = 0
         /\ ~storeOpened
         /\ calibration_store = <<>>
         /\ pc \in {"loop", "exited"}
         /\ (pc = "exited" => LastSaid = NoImagesText)

\* C3 witness: the run has exited on an empty glob.
C3_Witness == pc = "exited" /\ Len(images) = 0 /\ DOMAIN dir = {}

C5_FirstResolution ==
    /\ [](LET acc == PassedAmong(Seen)
              first == dir[images[FirstOf(acc)]].shape
          IN /\ (Globbed /\ acc # {})
                  => image_size = <<first[2], first[1]>>
             /\ solverCalls > 0
                  => (acc # {} /\ solverArgs.imageSize = <<first[2], first[1]>>))
    /\ [][image_size # <<>> => image_size' = image_size]_vars

\* C5 witness: the solver has been called after two accepted images of
\* different shapes.
C5_Witness ==
    /\ solverCalls = 1
    /\ \E i, j \in PassedAmong(Seen) :
          i < j /\ dir[images[i]].shape # dir[images[j]].shape

\* C6: when the run ends after the solver returned success, the file holds
\* exactly the four fields calibration_date, camera_resolution,
\* camera_matrix and distortion_coefficients, and camera_resolution is the
\* image_size recorded in the loop, which is what the solver was given.
C6_ResultFile ==
    (pc = "end" /\ retval # 0)
      => /\ storeOpened
         /\ Len(calibration_store) = 4
         /\ calibration_store[1][1] = "calibration_date"
         /\ calibration_store[2][1] = "camera_resolution"
         /\ calibration_store[3][1] = "camera_matrix"
         /\ calibration_store[4][1] = "distortion_coefficients"
         /\ calibration_store[2][2] = image_size
         /\ calibration_store[2][2] = solverArgs.imageSize
         /\ calibration_store[3][2] = camera_matrix
         /\ calibration_store[4][2] = distortion_coefficients
         /\ LastSaid = "Calibration finished"

\* C6 witness: the run has ended after a successful solve over an image
\* whose shape is not square.
C6_Witness ==
    /\ pc = "end"
    /\ retval # 0
    /\ image_size = <<5, 4>>

\* C7: after the solver returned failure the output file is never opened
\* or written, the solver is not called again, and the run ends on the
\* failure message.
C7_SolverFailure ==
    (solverCalls > 0 /\ retval = 0)
      => /\ solverCalls = 1
         /\ ~storeOpened
         /\ calibration_store = <<>>
         /\ pc \in {"persist", "end"}
         /\ (pc = "end" => LastSaid = "ERROR: Calibration failed")

\* C7 witness: the run has ended after a failed solve.
C7_Witness == pc = "end" /\ solverCalls = 1 /\ retval = 0

\* the three states of the capture loop
CaptureState ==
    IF pc \in {"read", "waitKey"} THEN "previewing"
    ELSE IF pc = "saving" THEN "saving"
    ELSE "terminated"

\* C8 as stated: the loop leaves previewing for saving only on the save
\* key, for terminated only on the terminate key, and stays in previewing
\* on anything else.
C8_OperatorDrivenOnly ==
    [][ /\ (CaptureState = "previewing" /\ CaptureState' = "saving")
           => (pc = "waitKey" /\ k' % 256 = 32)
        /\ (CaptureState = "previewing" /\ CaptureState' = "terminated")
           => (pc = "waitKey" /\ k' % 256 = 27)
        /\ (pc = "waitKey" /\ k' % 256 \notin {27, 32})
           => CaptureState' = "previewing" ]_vars

\* C8 amended: the loop leaves previewing for saving only on the save key,
\* for terminated only on the terminate key or on a failed frame grab, and
\* stays in previewing on anything else.
C8_OperatorOrFailedGrab ==
    [][ /\ (CaptureState = "previewing" /\ CaptureState' = "saving")
           => (pc = "waitKey" /\ k' % 256 = 32)
        /\ (CaptureState = "previewing" /\ CaptureState' = "terminated")
           => \/ (pc = "waitKey" /\ k' % 256 = 27)
              \/ (pc = "read" /\ ~ret')
        /\ (pc = "waitKey" /\ k' % 256 \notin {27, 32})
           => CaptureState' = "previewing" ]_vars

\* C8 witness: the loop was left on a failed grab after a frame was saved
\* and no terminate key was pressed.
C8_Witness ==
    /\ pc = "release"
    /\ ~ret
    /\ img_counter = 1
    /\ k % 256 # 27

\* C9: from the glob onwards the camera is released and the windows are
\* destroyed, whichever way the capture loop was left.
C9_ReleasedBeforeBatch ==
    (pc \notin CapturePcs) => (~cam /\ ~window)

\* C9 witness: the batch loop has processed an image after the capture
\* loop was left on the terminate key.
C9_Witness ==
    /\ pc = "loop"
    /\ idx > 1
    /\ k % 256 = 27
    /\ ret

\* C10: the two sequences only grow by appending; their i-th entries both
\* come from the i-th accepted image in iteration order; the solver is
\* called at most once, after the last image, with the two sequences.
C10_ParallelOrder ==
    /\ [](LET acc == PassedAmong(Seen)
          IN /\ Len(corners_all) = Cardinality(acc)
             /\ Len(ids_all) = Cardinality(acc)
             /\ \A n \in 1..Len(corners_all) :
                   \E i \in acc :
                      /\ Cardinality({j \in acc : j <= i}) = n
                      /\ corners_all[n].image = images[i]
                      /\ ids_all[n].image = images[i]
                      /\ corners_all[n].corners = dir[images[i]].response
                      /\ ids_all[n].ids = dir[images[i]].response
             /\ solverCalls <= 1
             /\ solverCalls = 1
                  => /\ idx = Len(images) + 1
                     /\ solverArgs.charucoCorners = corners_all
                     /\ solverArgs.charucoIds = ids_all)
    /\ [][IsPrefix(corners_all, corners_all') /\ IsPrefix(ids_all, ids_all')]_vars

\* C10 witness: the solver has been called with two accepted images taken
\* from three files, the rejected one lying between them.
C10_Witness ==
    /\ solverCalls = 1
    /\ Len(images) = 3
    /\ PassedAmong(Seen) = {1, 3}
    /\ Len(solverArgs.charucoCorners) = 2

====
